---- MODULE Spec2Model ----
(***************************************************************************)
(* Shipment Cost Analytics Dashboard (src/app.py): the ingestion and       *)
(* normalization of an uploaded spreadsheet (load_and_process_data), the   *)
(* OTP metric engine (calculate_otp) and the main flow that consumes both. *)
(*                                                                         *)
(* A table (pandas DataFrame) is a record [columns, rows]: the set of its  *)
(* column names and the sequence of its rows, each row a function from the *)
(* column names to cells.  A cell is one of                                *)
(*   Null          a missing value (None, NaN, NaT)                        *)
(*   IntC(n)       an integer                                              *)
(*   Float(r)      a floating-point number, kept as the exact fraction r   *)
(*   Str(s)        a text, s a sequence of one-character strings           *)
(*   Ts(t)         a timestamp, t seconds after 2024-01-01 00:00:00        *)
(*   Bool(b)       a boolean                                               *)
(***************************************************************************)
EXTENDS Integers, Sequences, FiniteSets, TLC

VARIABLES
    uploaded_file,  \* the file in the uploader (NoFile when none)
    df,             \* the table the flow works on (None when loading failed)
    pc,             \* the position of the run in the script
    error_shown,    \* whether st.error displayed a loading error
    otp,            \* <<gross_otp, net_otp>> (NotComputed before the call)
    rendered,       \* what the page has rendered, by section name
    arg,            \* calculate_otp's argument in the function-level check
    earlier,        \* the call of calculate_otp made before (None when none)
    cache,          \* st.cache_data's entries of load_and_process_data, by file
    parsed          \* the files pd.read_excel was run on, in order

vars == <<uploaded_file, df, pc, error_shown, otp, rendered, arg, earlier, cache, parsed>>

(***************************************************************************)
(* Cells                                                                   *)
(***************************************************************************)
Null == [null |-> TRUE]
IntC(n) == [int |-> n]
Float(r) == [float |-> r]
Str(s) == [str |-> s]
Ts(t) == [ts |-> t]
Bool(b) == [bool |-> b]

IsNull(c) == c = Null
IsInt(c) == DOMAIN c = {"int"}
IsFloat(c) == DOMAIN c = {"float"}
IsStr(c) == DOMAIN c = {"str"}
IsTs(c) == DOMAIN c = {"ts"}

(***************************************************************************)
(* Floating-point values as exact fractions n/d, d > 0, in lowest terms.   *)
(***************************************************************************)
RECURSIVE GCD(_, _)
GCD(a, b) == IF b = 0 THEN a ELSE GCD(b, a % b)

Abs(n) == IF n < 0 THEN -n ELSE n

Rat(n, d) ==
    LET g == GCD(Abs(n), d)
    IN  [n |-> n \div g, d |-> d \div g]

RatMul(a, b) == Rat(a.n * b.n, a.d * b.d)
RatLeq(a, b) == a.n * b.d <= b.n * a.d
RatLt(a, b) == a.n * b.d < b.n * a.d
Zero == Rat(0, 1)

(***************************************************************************)
(* Constants of the script                                                 *)
(***************************************************************************)
\* The list with its last code left out.
CodesWithoutLast == <<262, 287, 183, 197, 199, 308, 309, 319, 326, 278>>
CONTROLLABLE_QC_CODES == <<262, 287, 183, 197, 199, 308, 309, 319, 326, 278, 203>>
\* The rate applied the wrong way round.
RateInverted == Rat(100, 92)
USD_TO_EUR == Rat(92, 100)

Range(s) == {s[i] : i \in DOMAIN s}

(***************************************************************************)
(* DataFrame operations                                                    *)
(***************************************************************************)
\* df[col] = series: the column is added, or replaced when it exists.  A
\* series is the sequence of its values, one per row.
SetColumn(t, col, series) ==
    [columns |-> t.columns \cup {col},
     rows |-> [i \in DOMAIN t.rows |->
                 [c \in t.columns \cup {col} |->
                     IF c = col THEN series[i] ELSE t.rows[i][c]]]]

\* The rows a boolean mask selects, in their order.
RECURSIVE SelectRows(_, _)
SelectRows(rows, mask) ==
    IF rows = <<>> THEN <<>>
    ELSE (IF mask[1] THEN <<rows[1]>> ELSE <<>>) \o SelectRows(Tail(rows), Tail(mask))

\* df[mask]
Filter(t, mask) ==
    [columns |-> t.columns, rows |-> SelectRows(t.rows, mask)]

\* df.dropna(subset=cols): the rows with no missing value in cols.
DropNa(t, cols) ==
    Filter(t, [i \in DOMAIN t.rows |-> \A c \in cols : ~IsNull(t.rows[i][c])])

\* series.sum() of a boolean column: the number of True values.
RECURSIVE CountTrue(_, _)
CountTrue(rows, col) ==
    IF rows = <<>> THEN 0
    ELSE (IF rows[1][col] = Bool(TRUE) THEN 1 ELSE 0) + CountTrue(Tail(rows), col)

\* series.isin(values), elementwise: a missing value is in no list.
IsIn(c, values) == IsInt(c) /\ c.int \in Range(values)

(***************************************************************************)
(* calculate_otp(df): (gross, net) on-time percentages.                    *)
(***************************************************************************)
\* The comparison made strict.
OnTimeGrossStrict(r) == Bool(r["POD DATE/TIME"].ts < r["QDT"].ts)
OnTimeGross(r) == Bool(r["POD DATE/TIME"].ts <= r["QDT"].ts)
Late(r) == Bool(~r["ON_TIME_GROSS"].bool)
Controllable(r) == Bool(IsIn(r["QCCODE"], CONTROLLABLE_QC_CODES))
\* The net flag without its on-time-gross disjunct.
OnTimeNetForgetsGross(r) == Bool(r["LATE"].bool /\ ~r["CONTROLLABLE"].bool)
OnTimeNet(r) ==
    Bool(r["ON_TIME_GROSS"].bool \/ (r["LATE"].bool /\ ~r["CONTROLLABLE"].bool))
OnTimeNetNoQc(r) == r["ON_TIME_GROSS"]

\* df_valid with the working columns of lines 86-93.
OtpClassified(t) ==
    LET df_valid == DropNa(t, {"QDT", "POD DATE/TIME"})
        g == SetColumn(df_valid, "ON_TIME_GROSS",
                       [i \in DOMAIN df_valid.rows |-> OnTimeGross(df_valid.rows[i])])
        l == SetColumn(g, "LATE", [i \in DOMAIN g.rows |-> Late(g.rows[i])])
        c == SetColumn(l, "CONTROLLABLE", [i \in DOMAIN l.rows |-> Controllable(l.rows[i])])
    IN  IF "QCCODE" \in t.columns
        THEN SetColumn(c, "ON_TIME_NET", [i \in DOMAIN c.rows |-> OnTimeNet(c.rows[i])])
        ELSE SetColumn(l, "ON_TIME_NET", [i \in DOMAIN l.rows |-> OnTimeNetNoQc(l.rows[i])])

\* sum / len * 100
Percentage(t, col) == Rat(CountTrue(t.rows, col) * 100, Len(t.rows))

\* An empty selection reported as fully on time.
VacuousOtp == <<Rat(100, 1), Rat(100, 1)>>
\* return 0, 0
NoOtp == <<Zero, Zero>>

\* The percentages taken over the rows passed, len(df), instead of the valid
\* rows, len(df_valid).
OtpOverAllRows(t) ==
    IF "QDT" \notin t.columns \/ "POD DATE/TIME" \notin t.columns
    THEN NoOtp
    ELSE IF Len(DropNa(t, {"QDT", "POD DATE/TIME"}).rows) = 0
    THEN NoOtp
    ELSE LET df_valid == OtpClassified(t)
         IN  <<Rat(CountTrue(df_valid.rows, "ON_TIME_GROSS") * 100, Len(t.rows)),
               Rat(CountTrue(df_valid.rows, "ON_TIME_NET") * 100, Len(t.rows))>>

calculate_otp(t) ==
    IF "QDT" \notin t.columns \/ "POD DATE/TIME" \notin t.columns
    THEN NoOtp
    ELSE IF Len(DropNa(t, {"QDT", "POD DATE/TIME"}).rows) = 0
    THEN NoOtp
    ELSE LET df_valid == OtpClassified(t)
         IN  <<Percentage(df_valid, "ON_TIME_GROSS"), Percentage(df_valid, "ON_TIME_NET")>>

\* df_valid made a view of the table passed: the working columns land in it.
OtpFramesInPlace(t) == [df |-> OtpClassified(t), df_valid |-> OtpClassified(t)]
\* The two tables at the end of a call that got past the early returns: df,
\* the table passed, which is only read, and df_valid, the copy of its valid
\* rows (dropna(...).copy()) that lines 86-93 assign the working columns to.
OtpFrames(t) == [df |-> t, df_valid |-> OtpClassified(t)]

\* The table passed, as the caller finds it when calculate_otp has returned.
AfterOtp(t) ==
    IF "QDT" \notin t.columns \/ "POD DATE/TIME" \notin t.columns
    THEN t
    ELSE IF Len(DropNa(t, {"QDT", "POD DATE/TIME"}).rows) = 0
    THEN t
    ELSE OtpFrames(t).df

(***************************************************************************)
(* Texts and conversions                                                   *)
(***************************************************************************)
Digits == <<"0", "1", "2", "3", "4", "5", "6", "7", "8", "9">>
IsDigit(ch) == ch \in Range(Digits)
DigitValue(ch) == (CHOOSE i \in DOMAIN Digits : Digits[i] = ch) - 1

\* The decimal value of a sequence of digit characters.
RECURSIVE DecimalValue(_)
DecimalValue(s) ==
    IF s = <<>> THEN 0
    ELSE DecimalValue(SubSeq(s, 1, Len(s) - 1)) * 10 + DigitValue(s[Len(s)])

\* The decimal digits of a natural number.
RECURSIVE DecimalText(_)
DecimalText(n) ==
    IF n < 10 THEN <<Digits[n + 1]>>
    ELSE DecimalText(n \div 10) \o <<Digits[(n % 10) + 1]>>

\* n written with at least w digits, zero padded (strftime's %m, %Y).
RECURSIVE Padded(_, _)
Padded(s, w) == IF Len(s) >= w THEN s ELSE Padded(<<"0">> \o s, w)

IsNumberText(s) ==
    /\ s # <<>>
    /\ IF s[1] = "-"
       THEN Len(s) > 1 /\ \A i \in 2..Len(s) : IsDigit(s[i])
       ELSE \A i \in 1..Len(s) : IsDigit(s[i])

NumberOfText(s) ==
    IF s[1] = "-" THEN -DecimalValue(Tail(s)) ELSE DecimalValue(s)

\* pd.to_numeric(cell, errors='coerce'): a number, or NaN when unparseable.
to_numeric(c) ==
    IF IsInt(c) THEN Float(Rat(c.int, 1))
    ELSE IF IsFloat(c) THEN c
    ELSE IF IsStr(c) /\ IsNumberText(c.str) THEN Float(Rat(NumberOfText(c.str), 1))
    ELSE Null

\* The calendar of the model: the year 2024, in which every timestamp lies.
EpochYearText == <<"2", "0", "2", "4">>
DaysInMonth == <<31, 29, 31, 30, 31, 30, 31, 31, 30, 31, 30, 31>>
SecondsPerDay == 24 * 60 * 60
SecondsPerHour == 60 * 60

RECURSIVE DaysBefore(_)
DaysBefore(m) == IF m = 1 THEN 0 ELSE DaysBefore(m - 1) + DaysInMonth[m - 1]

\* The month (1..12) of a timestamp.
MonthOf(t) ==
    CHOOSE m \in 1..12 :
        /\ DaysBefore(m) * SecondsPerDay <= t
        /\ t < (DaysBefore(m) + DaysInMonth[m]) * SecondsPerDay

\* A date text 'YYYY-MM-DD' of the model's year.
IsDateText(s) ==
    /\ Len(s) = 10
    /\ s[5] = "-" /\ s[8] = "-"
    /\ \A i \in {1, 2, 3, 4, 6, 7, 9, 10} : IsDigit(s[i])
    /\ SubSeq(s, 1, 4) = EpochYearText
    /\ DecimalValue(SubSeq(s, 6, 7)) \in 1..12
    /\ DecimalValue(SubSeq(s, 9, 10)) \in 1..DaysInMonth[DecimalValue(SubSeq(s, 6, 7))]

DateOfText(s) ==
    (DaysBefore(DecimalValue(SubSeq(s, 6, 7))) + DecimalValue(SubSeq(s, 9, 10)) - 1)
        * SecondsPerDay

\* pd.to_datetime(cell, errors='coerce'): a timestamp, or NaT when unparseable.
to_datetime(c) ==
    IF IsTs(c) THEN c
    ELSE IF IsStr(c) /\ IsDateText(c.str) THEN Ts(DateOfText(c.str))
    ELSE Null

NaTText == <<"N", "a", "T">>
NanText == <<"n", "a", "n">>

\* series.dt.to_period('M').astype(str), elementwise: 'YYYY-MM'; the missing
\* period is rendered as the text 'NaT'.
PeriodText(c) ==
    IF IsNull(c) THEN Str(NaTText)
    ELSE Str(EpochYearText \o <<"-">> \o Padded(DecimalText(MonthOf(c.ts)), 2))

\* series.astype(str), elementwise.
AsStr(c) ==
    IF IsStr(c) THEN c.str
    ELSE IF IsInt(c) THEN DecimalText(c.int)
    ELSE NanText

Lower == <<"a", "b", "c", "d", "e", "f", "g", "h", "i", "j", "k", "l", "m",
           "n", "o", "p", "q", "r", "s", "t", "u", "v", "w", "x", "y", "z">>
Upper == <<"A", "B", "C", "D", "E", "F", "G", "H", "I", "J", "K", "L", "M",
           "N", "O", "P", "Q", "R", "S", "T", "U", "V", "W", "X", "Y", "Z">>

UpperChar(ch) ==
    IF ch \in Range(Lower) THEN Upper[CHOOSE i \in DOMAIN Lower : Lower[i] = ch] ELSE ch

\* str.upper()
UpperText(s) == [i \in DOMAIN s |-> UpperChar(s[i])]

\* str.strip(): leading and trailing blanks removed.
RECURSIVE StripLeft(_)
StripLeft(s) == IF s # <<>> /\ s[1] = " " THEN StripLeft(Tail(s)) ELSE s
RECURSIVE StripRight(_)
StripRight(s) ==
    IF s # <<>> /\ s[Len(s)] = " " THEN StripRight(SubSeq(s, 1, Len(s) - 1)) ELSE s
StripText(s) == StripRight(StripLeft(s))

(***************************************************************************)
(* load_and_process_data(file)                                             *)
(*                                                                         *)
(* An uploaded file is [readable |-> FALSE] when pd.read_excel cannot      *)
(* parse it, and [readable |-> TRUE, table |-> t] when it reads as t.      *)
(***************************************************************************)
None == [none |-> TRUE]
NoFile == [nofile |-> TRUE]

BILLED == <<"4", "4", "0", "-", "B", "I", "L", "L", "E", "D">>
date_cols == <<"QDT", "POD DATE/TIME", "ORD CREATE", "Depart Date / Time", "Arrive Date / Time">>
RouteSeparator == <<" ", "→", " ">>

\* The status compared without regard to letter case.
IsBilledAnyCase(r) == IsStr(r["STATUS"]) /\ UpperText(r["STATUS"].str) = BILLED
\* df[df['STATUS'] == '440-BILLED']
IsBilled(r) == r["STATUS"] = Str(BILLED)
StatusFilter(t) == Filter(t, [i \in DOMAIN t.rows |-> IsBilled(t.rows[i])])

\* for col in date_cols: if col in df.columns: df[col] = pd.to_datetime(...)
ConvertDates(t) ==
    [columns |-> t.columns,
     rows |-> [i \in DOMAIN t.rows |->
                 [c \in t.columns |->
                     IF c \in Range(date_cols)
                     THEN to_datetime(t.rows[i][c]) ELSE t.rows[i][c]]]]

\* pd.to_numeric(df['TOTAL CHARGES'], errors='coerce') * USD_TO_EUR
ChargesEur(r) ==
    LET v == to_numeric(r["TOTAL CHARGES"])
    IN  IF IsNull(v) THEN Null ELSE Float(RatMul(v.float, USD_TO_EUR))

\* df['TOTAL_CHARGES_EUR'] = 0
NoCharges(r) == IntC(0)

\* The charges coerced in their own column before the conversion.
CurrencyConversionInPlace(t) ==
    IF "TOTAL CHARGES" \in t.columns
    THEN LET coerced == SetColumn(t, "TOTAL CHARGES",
                                  [i \in DOMAIN t.rows |-> to_numeric(t.rows[i]["TOTAL CHARGES"])])
         IN  SetColumn(coerced, "TOTAL_CHARGES_EUR",
                       [i \in DOMAIN t.rows |-> ChargesEur(t.rows[i])])
    ELSE SetColumn(t, "TOTAL_CHARGES_EUR", [i \in DOMAIN t.rows |-> NoCharges(t.rows[i])])

CurrencyConversion(t) ==
    IF "TOTAL CHARGES" \in t.columns
    THEN SetColumn(t, "TOTAL_CHARGES_EUR", [i \in DOMAIN t.rows |-> ChargesEur(t.rows[i])])
    ELSE SetColumn(t, "TOTAL_CHARGES_EUR", [i \in DOMAIN t.rows |-> NoCharges(t.rows[i])])

\* df['DEP'].astype(str) + ' → ' + df['ARR'].astype(str)
RouteLabel(r) == Str(AsStr(r["DEP"]) \o RouteSeparator \o AsStr(r["ARR"]))

CreateRoute(t) ==
    IF "DEP" \in t.columns /\ "ARR" \in t.columns
    THEN SetColumn(t, "Route", [i \in DOMAIN t.rows |-> RouteLabel(t.rows[i])]) ELSE t

\* df['ORD CREATE'].dt.to_period('M').astype(str)
MonthKey(r) == PeriodText(r["ORD CREATE"])

ExtractMonth(t) ==
    IF "ORD CREATE" \in t.columns THEN SetColumn(t, "Month", [i \in DOMAIN t.rows |-> MonthKey(t.rows[i])]) ELSE t

\* (df['Arrive Date / Time'] - df['Depart Date / Time']).dt.total_seconds() / 3600
TransitHours(r) ==
    IF IsNull(r["Arrive Date / Time"]) \/ IsNull(r["Depart Date / Time"])
    THEN Null
    ELSE Float(Rat(r["Arrive Date / Time"].ts - r["Depart Date / Time"].ts, SecondsPerHour))

TransitTime(t) ==
    IF "Depart Date / Time" \in t.columns /\ "Arrive Date / Time" \in t.columns
    THEN SetColumn(t, "Transit_Hours", [i \in DOMAIN t.rows |-> TransitHours(t.rows[i])]) ELSE t

\* A missing TOTAL CHARGES column raising like a missing STATUS column.
LoadRaisesWithoutCharges(file) ==
    \/ ~file.readable
    \/ "STATUS" \notin file.table.columns
    \/ "TOTAL CHARGES" \notin file.table.columns

\* The statements of the try block that raise: read_excel on a file that is
\* no spreadsheet, and df['STATUS'] on a table without that column.
LoadRaises(file) ==
    \/ ~file.readable
    \/ "STATUS" \notin file.table.columns

\* The table the try block returns when nothing raises.
Normalize(t) ==
    TransitTime(ExtractMonth(CreateRoute(CurrencyConversion(ConvertDates(StatusFilter(t))))))

\* The except branch returning what the try block had read so far.
LoadReturnsPartial(file) ==
    IF ~file.readable THEN None
    ELSE IF "STATUS" \notin file.table.columns THEN file.table
    ELSE Normalize(file.table)

\* The value returned: the normalized table, or None from the except branch.
load_and_process_data(file) ==
    IF LoadRaises(file) THEN None ELSE Normalize(file.table)

(***************************************************************************)
(* st.cache_data on load_and_process_data: one entry per file the function *)
(* was called with, never evicted (no ttl, no max_entries).  An entry      *)
(* holds the value returned and whether st.error was called.               *)
(***************************************************************************)
NoCache == [file \in {} |-> None]

\* A cache that finds no entry.
CacheNeverHits(entries, file) == FALSE
CacheHit(entries, file) == file \in DOMAIN entries

Store(entries, file, entry) ==
    [f \in DOMAIN entries \cup {file} |-> IF f = file THEN entry ELSE entries[f]]

(***************************************************************************)
(* Bounds and input domains                                                *)
(***************************************************************************)
MaxRows == 3        \* rows of a table given to calculate_otp
MaxCodeRows == 1    \* rows of such a table when every quality code is drawn

Deadline == 10 * SecondsPerDay
QdtCells == {Null, Ts(Deadline)}
PodCells == {Null, Ts(Deadline), Ts(Deadline + 1)}
FewCodes == {Null, IntC(262), IntC(999), IntC(-1)}
AllCodes ==
    {Null, IntC(0), IntC(-1), IntC(999)} \cup
    {IntC(q) : q \in {262, 287, 183, 197, 199, 308, 309, 319, 326, 278, 203}}
OtpColumns == {"QDT", "POD DATE/TIME", "QCCODE"}

OtpCells(col, codes) ==
    CASE col = "QDT" -> QdtCells
      [] col = "POD DATE/TIME" -> PodCells
      [] col = "QCCODE" -> codes

OtpRows(cols, codes) ==
    {r \in [cols -> QdtCells \cup PodCells \cup codes] :
        \A c \in cols : r[c] \in OtpCells(c, codes)}

\* The tables drawn: up to MaxRows rows over a few quality codes, and up to
\* MaxCodeRows rows over every quality code.
IsOtpTable(t) ==
    \E cols \in SUBSET OtpColumns :
        \/ \E k \in 0..MaxRows :
              \E rows \in [1..k -> OtpRows(cols, FewCodes)] :
                  t = [columns |-> cols, rows |-> rows]
        \/ \E k \in 0..MaxCodeRows :
              \E rows \in [1..k -> OtpRows(cols, AllCodes)] :
                  t = [columns |-> cols, rows |-> rows]

NotComputed == <<>>
NothingRendered == [section \in {} |-> None]

(***************************************************************************)
(* calculate_otp on its own: a table is drawn and the function applied.    *)
(***************************************************************************)
InitOtp ==
    /\ IsOtpTable(arg)
    /\ otp = NotComputed
    /\ pc = "call"
    /\ uploaded_file = NoFile
    /\ df = None
    /\ error_shown = FALSE
    /\ rendered = NothingRendered
    /\ earlier = None
    /\ cache = NoCache
    /\ parsed = <<>>

CallOtp ==
    /\ pc = "call"
    /\ otp' = calculate_otp(arg)
    /\ arg' = AfterOtp(arg)
    /\ pc' = "returned"
    /\ UNCHANGED <<uploaded_file, df, error_shown, rendered, earlier, cache, parsed>>

NextOtp == CallOtp

SpecOtp == InitOtp /\ [][NextOtp]_vars

(***************************************************************************)
(* Properties of calculate_otp (checked under SpecOtp)                     *)
(***************************************************************************)
HasOtpColumns(t) == "QDT" \in t.columns /\ "POD DATE/TIME" \in t.columns

\* The rows with both timestamps present.
ValidRows(t) ==
    {i \in DOMAIN t.rows :
        ~IsNull(t.rows[i]["QDT"]) /\ ~IsNull(t.rows[i]["POD DATE/TIME"])}

ElevenCodes == {262, 287, 183, 197, 199, 308, 309, 319, 326, 278, 203}

DeliveredByDeadline(r) == r["POD DATE/TIME"].ts <= r["QDT"].ts

HasElevenCode(t, r) ==
    "QCCODE" \in t.columns /\ IsInt(r["QCCODE"]) /\ r["QCCODE"].int \in ElevenCodes

\* On time, or late with a quality code outside the eleven; without a QCCODE
\* column, on time only.
NetOnTime(t, r) ==
    \/ DeliveredByDeadline(r)
    \/ "QCCODE" \in t.columns /\ ~HasElevenCode(t, r)

PercentOf(S, T) == Rat(100 * Cardinality(S), Cardinality(T))

ExampleTable ==
    [columns |-> OtpColumns,
     rows |-> << [c \in OtpColumns |->
                    CASE c = "QDT" -> Ts(Deadline)
                      [] c = "POD DATE/TIME" -> Ts(Deadline)
                      [] c = "QCCODE" -> Null],
                 [c \in OtpColumns |->
                    CASE c = "QDT" -> Ts(Deadline)
                      [] c = "POD DATE/TIME" -> Ts(Deadline + 1)
                      [] c = "QCCODE" -> IntC(262)],
                 [c \in OtpColumns |->
                    CASE c = "QDT" -> Ts(Deadline)
                      [] c = "POD DATE/TIME" -> Ts(Deadline + 1)
                      [] c = "QCCODE" -> IntC(999)] >>]

\* C1: for every table given to calculate_otp, the net percentage returned
\* is greater than or equal to the gross percentage returned.
C1_NetAtLeastGross ==
    pc = "returned" => RatLeq(otp[1], otp[2])

\* A call that returned a net percentage strictly between gross and 100.
C1_Witness ==
    /\ pc = "returned"
    /\ RatLt(otp[1], otp[2])
    /\ RatLt(otp[2], Rat(100, 1))

\* C2: the net percentage counts, among the valid rows, those on time gross
\* or late with a quality code outside the eleven codes (null, zero, negative
\* and any other value count as outside); without a QCCODE column net equals
\* gross; the three-row example gives gross 1 of 3 and net 2 of 3.
C2_NetDefinition ==
    pc = "returned" /\ HasOtpColumns(arg) /\ ValidRows(arg) # {} =>
        /\ otp[2] = PercentOf({i \in ValidRows(arg) : NetOnTime(arg, arg.rows[i])},
                              ValidRows(arg))
        /\ "QCCODE" \notin arg.columns => otp[2] = otp[1]
        /\ arg = ExampleTable => otp = <<Rat(100, 3), Rat(200, 3)>>

\* The example of the claim has been computed.
C2_Witness ==
    /\ pc = "returned"
    /\ arg = ExampleTable
    /\ otp = <<Rat(100, 3), Rat(200, 3)>>

\* C3: calculate_otp returns exactly (0, 0) when QDT or POD DATE/TIME is no
\* column of the table or no row has both timestamps, whatever the table
\* (a full table, a subset of its rows, no rows at all).
C3_NoValidRowsGivesZero ==
    pc = "returned" /\ (~HasOtpColumns(arg) \/ ValidRows(arg) = {}) =>
        otp = <<Zero, Zero>>

\* A table with both columns and some rows, none of them valid.
C3_Witness ==
    /\ pc = "returned"
    /\ HasOtpColumns(arg)
    /\ Len(arg.rows) > 1
    /\ ValidRows(arg) = {}
    /\ otp = <<Zero, Zero>>

\* C4: the gross percentage counts, among the valid rows, exactly those with
\* POD DATE/TIME <= QDT: delivery at the deadline is on time, delivery one
\* second after it is late.
C4_GrossBoundary ==
    pc = "returned" /\ HasOtpColumns(arg) /\ ValidRows(arg) # {} =>
        otp[1] = PercentOf({i \in ValidRows(arg) : DeliveredByDeadline(arg.rows[i])},
                           ValidRows(arg))

\* One row at the deadline and one row a second after it: half on time.
C4_Witness ==
    /\ pc = "returned"
    /\ HasOtpColumns(arg)
    /\ Len(arg.rows) = 2
    /\ arg.rows[1]["POD DATE/TIME"] = arg.rows[1]["QDT"]
    /\ arg.rows[2]["QDT"] = Ts(Deadline)
    /\ arg.rows[2]["POD DATE/TIME"] = Ts(Deadline + 1)
    /\ ~IsNull(arg.rows[1]["QDT"])
    /\ otp[1] = Rat(50, 1)

(***************************************************************************)
(* calculate_otp called twice: on one table, then on another.              *)
(***************************************************************************)
MaxPairRows == 2    \* rows of the first table; the second may have one more

\* The rows drawn: the valid ones (on time or late, code 262 or none), one
\* without QDT and, in a table without QCCODE, one without POD DATE/TIME.
PairRows(cols) ==
    {r \in [cols -> {Null, Ts(Deadline), Ts(Deadline + 1), IntC(262), Str(<<"R", "1">>)}] :
        /\ r["QDT"] \in QdtCells
        /\ r["POD DATE/TIME"] \in PodCells
        /\ IsNull(r["QDT"]) => r["POD DATE/TIME"] = Ts(Deadline)
        /\ IsNull(r["POD DATE/TIME"]) => ~IsNull(r["QDT"])
        /\ "QCCODE" \in cols => r["QCCODE"] \in {Null, IntC(262)}
        /\ "QCCODE" \in cols => ~IsNull(r["POD DATE/TIME"])
        /\ "QCCODE" \in cols /\ (IsNull(r["QDT"]) \/ IsNull(r["POD DATE/TIME"]))
              => IsNull(r["QCCODE"])
        /\ "REFER" \in cols => r["REFER"] = Str(<<"R", "1">>)}

\* The tables drawn: both timestamp columns, with or without QCCODE, with or
\* without a column calculate_otp does not read.
PairColumnSets ==
    {{"QDT", "POD DATE/TIME"},
     {"QDT", "POD DATE/TIME", "QCCODE"},
     {"QDT", "POD DATE/TIME", "QCCODE", "REFER"}}

IsPairTable(t) ==
    \E cols \in PairColumnSets :
        \E k \in 0..MaxPairRows :
            \E rows \in [1..k -> PairRows(cols)] :
                t = [columns |-> cols, rows |-> rows]

InitOtpPair ==
    /\ IsPairTable(arg)
    /\ otp = NotComputed
    /\ pc = "call"
    /\ uploaded_file = NoFile
    /\ df = None
    /\ error_shown = FALSE
    /\ rendered = NothingRendered
    /\ earlier = None
    /\ cache = NoCache
    /\ parsed = <<>>

\* A further call, on another table: the call before it is kept in earlier.
CallOtpAgain ==
    /\ pc = "returned"
    /\ earlier = None
    /\ \E cols \in PairColumnSets :
          \E k \in 0..(MaxPairRows + 1) :
              \E rows \in [1..k -> PairRows(cols)] :
                  /\ arg' = [columns |-> cols, rows |-> rows]
                  /\ otp' = calculate_otp(arg')
    /\ earlier' = [arg |-> arg, otp |-> otp]
    /\ UNCHANGED <<uploaded_file, df, pc, error_shown, rendered, cache, parsed>>

NextOtpPair == CallOtp \/ CallOtpAgain

SpecOtpPair == InitOtpPair /\ [][NextOtpPair]_vars

\* What calculate_otp may depend on in a row: its two timestamps and its
\* quality code, if the table has that column.
NoColumn == [nocolumn |-> TRUE]
OtpFields(t, r) ==
    <<r["QDT"], r["POD DATE/TIME"], IF "QCCODE" \in t.columns THEN r["QCCODE"] ELSE NoColumn>>

TimesValid(t, f) == Cardinality({i \in ValidRows(t) : OtpFields(t, t.rows[i]) = f})

\* The two tables have the same valid rows, as far as the three fields go,
\* each as many times, in whatever order.
AgreeOnValidRows(a, b) ==
    \A f \in {OtpFields(a, a.rows[i]) : i \in ValidRows(a)} \cup
              {OtpFields(b, b.rows[i]) : i \in ValidRows(b)} :
        TimesValid(a, f) = TimesValid(b, f)

\* C11: two tables whose valid rows (both timestamps present) agree on QDT,
\* POD DATE/TIME and QCCODE get the same (gross, net) from calculate_otp,
\* whatever their other columns, their rows without a timestamp, the order
\* of their rows, and the call made before.
C11_DependsOnValidRowsOnly ==
    pc = "returned" /\ earlier # None /\ AgreeOnValidRows(earlier.arg, arg) =>
        otp = earlier.otp

\* Two calls with the same result on tables that differ in their columns,
\* in the order of their valid rows and in a row without QDT.
C11_Witness ==
    /\ pc = "returned"
    /\ earlier # None
    /\ AgreeOnValidRows(earlier.arg, arg)
    /\ "REFER" \in arg.columns /\ "REFER" \notin earlier.arg.columns
    /\ Len(earlier.arg.rows) = 2 /\ Len(arg.rows) = 3
    /\ ValidRows(earlier.arg) = {1, 2} /\ ValidRows(arg) = {1, 3}
    /\ OtpFields(arg, arg.rows[1]) = OtpFields(earlier.arg, earlier.arg.rows[2])
    /\ OtpFields(arg, arg.rows[1]) # OtpFields(arg, arg.rows[3])
    /\ otp = earlier.otp
    /\ otp[1] = Rat(50, 1)

(***************************************************************************)
(* Aggregations of the main flow                                           *)
(***************************************************************************)
TopLocations == 15
TopRoutes == 10

\* df['DEP'].str.upper().str.strip(), elementwise: a value that is no text
\* gives a missing value.
CleanLocation(c) ==
    IF IsStr(c) THEN Str(StripText(UpperText(c.str))) ELSE Null

\* The keys of df.groupby(col): the distinct values, missing values dropped.
GroupKeys(t, col) == {t.rows[i][col] : i \in DOMAIN t.rows} \ {Null}

\* df.groupby(col).agg({'REFER': 'count'}): per key, the number of rows of the
\* group whose REFER is not missing.
CountRefer(t, col) ==
    [k \in GroupKeys(t, col) |->
        Cardinality({i \in DOMAIN t.rows :
                        t.rows[i][col] = k /\ ~IsNull(t.rows[i]["REFER"])})]

\* counts.sort_values('Shipments', ascending=False).head(n): the results the
\* sort can give; groups with equal counts come in no fixed order.
TopGroups(counts, n) ==
    {[k \in K |-> counts[k]] :
        K \in {K \in SUBSET DOMAIN counts :
                  /\ Cardinality(K) = IF Cardinality(DOMAIN counts) < n
                                      THEN Cardinality(DOMAIN counts) ELSE n
                  /\ \A k \in K : \A j \in (DOMAIN counts) \ K : counts[k] >= counts[j]}}

\* df[df['Month'] == month]
MonthData(t, month) ==
    Filter(t, [i \in DOMAIN t.rows |-> t.rows[i]["Month"] = month])

\* monthly_net_otp: the net percentage of calculate_otp on each month's rows.
\* Each call is given month_data, a table of its own that the boolean
\* selection builds, and df is not passed.
MonthlyNetOtp(t) ==
    [month \in GroupKeys(t, "Month") |-> calculate_otp(MonthData(t, month))[2]]

\* The filter without its lower limit.
ValidTransitNoFloor(c) ==
    /\ ~IsNull(c)
    /\ RatLt(c.float, Rat(200, 1))

\* df[notna & (Transit_Hours > 0) & (Transit_Hours < 200)]
ValidTransit(c) ==
    /\ ~IsNull(c)
    /\ RatLt(Zero, c.float)
    /\ RatLt(c.float, Rat(200, 1))

TransitData(t) ==
    Filter(t, [i \in DOMAIN t.rows |-> ValidTransit(t.rows[i]["Transit_Hours"])])

\* rendered with one more section.
Render(page, section, value) ==
    [s \in DOMAIN page \cup {section} |-> IF s = section THEN value ELSE page[s]]

(***************************************************************************)
(* The main flow: one run of the script per upload.                        *)
(***************************************************************************)
\* uploaded_file = st.file_uploader(...): a file arrives and the script runs.
Upload(file) ==
    /\ pc = "idle"
    /\ uploaded_file' = file
    /\ df' = None
    /\ error_shown' = FALSE
    /\ otp' = NotComputed
    /\ rendered' = NothingRendered
    /\ pc' = "load"
    /\ UNCHANGED <<arg, earlier, cache, parsed>>

\* The file is removed from the uploader: the script runs with uploaded_file
\* None and renders the else branch, the invitation to upload.
Clear ==
    /\ pc \in {"done", "crashed"}
    /\ uploaded_file' = NoFile
    /\ df' = None
    /\ error_shown' = FALSE
    /\ otp' = NotComputed
    /\ rendered' = NothingRendered
    /\ pc' = "idle"
    /\ UNCHANGED <<arg, earlier, cache, parsed>>

\* A widget of the page is used (the download button is one): the script
\* runs again, from its first line, with the file still in the uploader.
Rerun ==
    /\ pc \in {"done", "crashed"}
    /\ uploaded_file # NoFile
    /\ df' = None
    /\ error_shown' = FALSE
    /\ otp' = NotComputed
    /\ rendered' = NothingRendered
    /\ pc' = "load"
    /\ UNCHANGED <<uploaded_file, arg, earlier, cache, parsed>>

\* The server process is started anew: the uploader is empty and so is the
\* cache, which st.cache_data keeps in the memory of the process.
Restart ==
    /\ pc \in {"done", "crashed"}
    /\ uploaded_file' = NoFile
    /\ df' = None
    /\ error_shown' = FALSE
    /\ otp' = NotComputed
    /\ rendered' = NothingRendered
    /\ pc' = "idle"
    /\ cache' = NoCache
    /\ parsed' = <<>>
    /\ UNCHANGED <<arg, earlier>>

\* df = load_and_process_data(uploaded_file); if df is not None: ...
\* The function is decorated with st.cache_data: a call with a file that has
\* an entry returns the entry's value and replays its st.error; any other call
\* runs the function and stores what it returned.
Load ==
    /\ pc = "load"
    /\ IF CacheHit(cache, uploaded_file)
       THEN /\ df' = cache[uploaded_file].value
            /\ error_shown' = cache[uploaded_file].error
            /\ UNCHANGED <<cache, parsed>>
       ELSE /\ df' = load_and_process_data(uploaded_file)
            /\ error_shown' = LoadRaises(uploaded_file)
            /\ cache' = Store(cache, uploaded_file,
                              [value |-> df', error |-> error_shown'])
            /\ parsed' = Append(parsed, uploaded_file)
    /\ pc' = IF df' = None THEN "done" ELSE "kpis"
    /\ UNCHANGED <<uploaded_file, otp, rendered, arg, earlier>>

\* gross_otp, net_otp = calculate_otp(df) and the row of KPI cards.
Kpis ==
    /\ pc = "kpis"
    /\ otp' = calculate_otp(df)
    /\ df' = AfterOtp(df)
    /\ rendered' = Render(rendered, "kpis",
                          [shipments |-> Len(df'.rows), gross |-> otp'[1], net |-> otp'[2]])
    /\ pc' = "dep"
    /\ UNCHANGED <<uploaded_file, error_shown, arg, earlier, cache, parsed>>

\* A section that groups by a cleaned location column.
LocationPoints(col, clean, section, next) ==
    IF col \notin df.columns
    THEN /\ pc' = next
         /\ UNCHANGED <<df, rendered>>
    ELSE /\ df' = SetColumn(df, clean, [i \in DOMAIN df.rows |-> CleanLocation(df.rows[i][col])])
         /\ IF "REFER" \notin df.columns
            THEN /\ pc' = "crashed"
                 /\ UNCHANGED rendered
            ELSE /\ \E top \in TopGroups(CountRefer(df', clean), TopLocations) :
                        rendered' = Render(rendered, section, top)
                 /\ pc' = next

\* Top 15 Departure Points (DEP)
DeparturePoints ==
    /\ pc = "dep"
    /\ LocationPoints("DEP", "DEP_CLEAN", "dep_counts", "arr")
    /\ UNCHANGED <<uploaded_file, error_shown, otp, arg, earlier, cache, parsed>>

\* Top 15 Delivery Points (ARR)
DeliveryPoints ==
    /\ pc = "arr"
    /\ LocationPoints("ARR", "ARR_CLEAN", "arr_counts", "route")
    /\ UNCHANGED <<uploaded_file, error_shown, otp, arg, earlier, cache, parsed>>

\* Top 10 Routes by Volume
Routes ==
    /\ pc = "route"
    /\ IF "Route" \notin df.columns
       THEN /\ pc' = "monthly"
            /\ UNCHANGED rendered
       ELSE IF "REFER" \notin df.columns
       THEN /\ pc' = "crashed"
            /\ UNCHANGED rendered
       ELSE /\ \E top \in TopGroups(CountRefer(df, "Route"), TopRoutes) :
                   rendered' = Render(rendered, "route_stats", top)
            /\ pc' = "monthly"
    /\ UNCHANGED <<uploaded_file, df, error_shown, otp, arg, earlier, cache, parsed>>

\* Monthly Performance Trend
Monthly ==
    /\ pc = "monthly"
    /\ IF "Month" \notin df.columns
       THEN /\ pc' = "transit"
            /\ UNCHANGED rendered
       ELSE IF "REFER" \notin df.columns
       THEN /\ pc' = "crashed"
            /\ UNCHANGED rendered
       ELSE /\ rendered' =
                 Render(rendered, "monthly",
                        [Orders |-> CountRefer(df, "Month"),
                         Net_OTP |-> IF "QDT" \in df.columns /\ "POD DATE/TIME" \in df.columns
                                     THEN MonthlyNetOtp(df) ELSE None])
            /\ pc' = "transit"
    /\ UNCHANGED <<uploaded_file, df, error_shown, otp, arg, earlier, cache, parsed>>

\* Transit Time Analysis
Transit ==
    /\ pc = "transit"
    /\ IF "Transit_Hours" \in df.columns
       THEN rendered' = Render(rendered, "transit_data", TransitData(df))
       ELSE UNCHANGED rendered
    /\ pc' = "export"
    /\ UNCHANGED <<uploaded_file, df, error_shown, otp, arg, earlier, cache, parsed>>

\* csv = df.to_csv(index=False) and the download button
Export ==
    /\ pc = "export"
    /\ rendered' = Render(rendered, "csv", df)
    /\ pc' = "done"
    /\ UNCHANGED <<uploaded_file, df, error_shown, otp, arg, earlier, cache, parsed>>

(***************************************************************************)
(* Uploaded files                                                          *)
(***************************************************************************)
MaxFileRows == 2    \* rows of an uploaded spreadsheet

AllColumns ==
    {"STATUS", "REFER", "QDT", "POD DATE/TIME", "QCCODE", "ORD CREATE", "DEP", "ARR",
     "TOTAL CHARGES", "Depart Date / Time", "Arrive Date / Time"}

Corrupt == [readable |-> FALSE]
Spreadsheet(cols, rows) ==
    [readable |-> TRUE,
     table |-> [columns |-> cols,
                rows |-> [i \in DOMAIN rows |-> [c \in cols |-> rows[i][c]]]]]

OpenStatus == <<"3", "0", "0", "-", "O", "P", "E", "N">>
BilledLowerCase == <<"4", "4", "0", "-", "b", "i", "l", "l", "e", "d">>
Unparseable == <<"n", "/", "a">>
FebruaryFirst == <<"2", "0", "2", "4", "-", "0", "2", "-", "0", "1">>
Twelve == <<"1", "2">>
R1 == <<"R", "1">>
JFK == <<"J", "F", "K">>
JfkLowerCase == <<"j", "f", "k">>
JfkPadded == <<" ", "J", "F", "K", " ">>
LHR == <<"L", "H", "R">>
LhrLowerCase == <<"l", "h", "r">>
Created == 14 * SecondsPerDay
Departed == 9 * SecondsPerDay

Shipment(status, refer, qdt, pod, qc, ord, dep, arr, charges, depart, arrive) ==
    [c \in AllColumns |->
        CASE c = "STATUS" -> status
          [] c = "REFER" -> refer
          [] c = "QDT" -> qdt
          [] c = "POD DATE/TIME" -> pod
          [] c = "QCCODE" -> qc
          [] c = "ORD CREATE" -> ord
          [] c = "DEP" -> dep
          [] c = "ARR" -> arr
          [] c = "TOTAL CHARGES" -> charges
          [] c = "Depart Date / Time" -> depart
          [] c = "Arrive Date / Time" -> arrive]

\* A billed shipment, delivered at its deadline after a day in transit.
BaseRow ==
    Shipment(Str(BILLED), Str(R1), Ts(Deadline), Ts(Deadline), Null, Ts(Created),
             Str(JFK), Str(LHR), IntC(100), Ts(Departed), Ts(Departed + SecondsPerDay))

\* A billed shipment with nothing else usable.
DirtyRow ==
    Shipment(Str(BILLED), Null, Str(Unparseable), Null, Str(Unparseable), Str(Unparseable),
             Null, IntC(7), Str(Unparseable), Null, Str(Unparseable))

OpenRow == [BaseRow EXCEPT !["STATUS"] = Str(OpenStatus)]

\* The rows of the spreadsheets the main flow is run on.
FlowRows ==
    {BaseRow,
     OpenRow,
     [BaseRow EXCEPT !["STATUS"] = Str(BilledLowerCase), !["DEP"] = Str(JfkLowerCase)],
     [BaseRow EXCEPT !["DEP"] = Str(JfkLowerCase), !["ARR"] = Str(LhrLowerCase),
                     !["Arrive Date / Time"] = Ts(Departed)],
     [BaseRow EXCEPT !["DEP"] = Str(JfkPadded),
                     !["Arrive Date / Time"] = Ts(Departed + 200 * SecondsPerHour)],
     [BaseRow EXCEPT !["DEP"] = Str(LHR), !["ARR"] = Str(JFK),
                     !["POD DATE/TIME"] = Ts(Deadline + 2 * SecondsPerHour),
                     !["QCCODE"] = IntC(262), !["ORD CREATE"] = Str(FebruaryFirst)],
     [BaseRow EXCEPT !["REFER"] = Null, !["DEP"] = Str(JfkLowerCase)],
     [BaseRow EXCEPT !["ORD CREATE"] = Null,
                     !["POD DATE/TIME"] = Ts(Deadline + SecondsPerHour),
                     !["QCCODE"] = IntC(999)],
     [BaseRow EXCEPT !["ORD CREATE"] = Str(Unparseable), !["QDT"] = Null,
                     !["Arrive Date / Time"] = Ts(Departed + 300 * SecondsPerHour)],
     [BaseRow EXCEPT !["DEP"] = Null, !["ARR"] = Null, !["TOTAL CHARGES"] = Str(Unparseable),
                     !["Arrive Date / Time"] = Ts(Departed - SecondsPerHour)]}

\* The spreadsheets of the main flow: every column, or every column but one
\* of these.
FlowColumnSets ==
    {AllColumns} \cup
    {AllColumns \ {c} :
        c \in {"STATUS", "REFER", "ORD CREATE", "DEP", "QDT", "QCCODE", "Arrive Date / Time"}}

\* The rows load_and_process_data is applied to on its own: every combination
\* of a status, a charge and an order-creation cell.
StatusCells == {Str(BILLED), Str(OpenStatus), Null}
ChargeCells == {IntC(100), Str(Twelve), Str(Unparseable), Null}
OrdCreateCells == {Ts(Created), Str(FebruaryFirst), Str(Unparseable), Null}
LoadRows ==
    {[BaseRow EXCEPT !["STATUS"] = s, !["TOTAL CHARGES"] = ch, !["ORD CREATE"] = oc] :
        s \in StatusCells, ch \in ChargeCells, oc \in OrdCreateCells}
SampleRows == {BaseRow, DirtyRow, OpenRow}

(***************************************************************************)
(* The dashboard: uploads, each followed by one run of the script, the     *)
(* process started anew before the next (its cache is empty at each        *)
(* upload; SpecCache below keeps the cache over uploads and reruns).       *)
(***************************************************************************)
Init ==
    /\ uploaded_file = NoFile
    /\ df = None
    /\ pc = "idle"
    /\ error_shown = FALSE
    /\ otp = NotComputed
    /\ rendered = NothingRendered
    /\ arg = None
    /\ earlier = None
    /\ cache = NoCache
    /\ parsed = <<>>

UploadSpreadsheet ==
    \E cols \in FlowColumnSets :
        \E k \in 0..MaxFileRows :
            \E rows \in [1..k -> FlowRows] : Upload(Spreadsheet(cols, rows))

UploadCorrupt == Upload(Corrupt)

Next ==
    \/ UploadSpreadsheet
    \/ UploadCorrupt
    \/ Restart
    \/ Load
    \/ Kpis
    \/ DeparturePoints
    \/ DeliveryPoints
    \/ Routes
    \/ Monthly
    \/ Transit
    \/ Export

Spec == Init /\ [][Next]_vars

(***************************************************************************)
(* load_and_process_data on its own: a file is drawn and the function      *)
(* applied.  The files: a corrupt one; every subset of the columns with    *)
(* sample rows; every column with every combination of cells.              *)
(***************************************************************************)
InitLoad ==
    /\ \/ uploaded_file = Corrupt
       \/ \E cols \in SUBSET AllColumns :
            \E k \in 0..MaxFileRows :
                \E rows \in [1..k -> SampleRows] :
                    uploaded_file = Spreadsheet(cols, rows)
       \/ \E k \in 0..MaxFileRows :
            \E rows \in [1..k -> LoadRows] :
                uploaded_file = Spreadsheet(AllColumns, rows)
    /\ df = None
    /\ pc = "load"
    /\ error_shown = FALSE
    /\ otp = NotComputed
    /\ rendered = NothingRendered
    /\ arg = None
    /\ earlier = None
    /\ cache = NoCache
    /\ parsed = <<>>

NextLoad == Load

SpecLoad == InitLoad /\ [][NextLoad]_vars

(***************************************************************************)
(* The dashboard over one life of the process: files are uploaded, removed *)
(* and uploaded again, and the script is rerun on the file in the          *)
(* uploader; the cache of load_and_process_data lives on throughout.       *)
(***************************************************************************)
CacheFiles ==
    {Corrupt,
     Spreadsheet(AllColumns, <<BaseRow>>),
     Spreadsheet(AllColumns, <<OpenRow, DirtyRow>>),
     Spreadsheet(AllColumns \ {"STATUS"}, <<BaseRow>>)}

UploadCached == \E file \in CacheFiles : Upload(file)

NextCache ==
    \/ UploadCached
    \/ Rerun
    \/ Clear
    \/ Load
    \/ Kpis
    \/ DeparturePoints
    \/ DeliveryPoints
    \/ Routes
    \/ Monthly
    \/ Transit
    \/ Export

SpecCache == Init /\ [][NextCache]_vars

(***************************************************************************)
(* Properties of load_and_process_data and of the main flow                *)
(***************************************************************************)
\* The indices of the rows whose STATUS is the text 440-BILLED, ascending.
RECURSIVE BilledIndices(_, _)
BilledIndices(rows, i) ==
    IF i > Len(rows) THEN <<>>
    ELSE (IF rows[i]["STATUS"] = Str(BILLED) THEN <<i>> ELSE <<>>)
         \o BilledIndices(rows, i + 1)

AllBilled(t) == \A j \in DOMAIN t.rows : t.rows[j]["STATUS"] = Str(BILLED)

\* C5: the table load_and_process_data returns holds exactly the input rows
\* whose STATUS is '440-BILLED', in their order, none dropped afterwards;
\* the KPIs, the transit analysis and the export see only such rows.
C5_OnlyBilledRows ==
    df # None =>
        LET raw == uploaded_file.table
            kept == BilledIndices(raw.rows, 1)
        IN  /\ Len(df.rows) = Len(kept)
            /\ \A j \in DOMAIN kept : \A c \in raw.columns :
                  df.rows[j][c] = IF c \in Range(date_cols)
                                  THEN to_datetime(raw.rows[kept[j]][c])
                                  ELSE raw.rows[kept[j]][c]
            /\ AllBilled(df)
            /\ "kpis" \in DOMAIN rendered => rendered["kpis"].shipments = Len(kept)
            /\ "transit_data" \in DOMAIN rendered => AllBilled(rendered["transit_data"])
            /\ "csv" \in DOMAIN rendered =>
                  AllBilled(rendered["csv"]) /\ Len(rendered["csv"].rows) = Len(kept)

\* A run that exported one row of a spreadsheet whose first row was not
\* billed and whose second row, with an unparseable charge, was.
C5_Witness ==
    /\ pc = "done"
    /\ df # None
    /\ Len(uploaded_file.table.rows) = 2
    /\ "TOTAL CHARGES" \in df.columns
    /\ uploaded_file.table.rows[1]["STATUS"] = Str(BilledLowerCase)
    /\ uploaded_file.table.rows[2]["TOTAL CHARGES"] = Str(Unparseable)
    /\ Len(df.rows) = 1
    /\ "csv" \in DOMAIN rendered

\* C6 as stated: a readable spreadsheet always gives a table; the failure
\* outcome occurs only for an input that is no spreadsheet.
C6_FailsOnlyWhenUnreadable ==
    pc # "load" => (df = None <=> ~uploaded_file.readable)

\* C6, amended: a readable spreadsheet with a STATUS column gives a table,
\* whichever other columns are missing and whichever cells are unparseable;
\* the failure outcome occurs exactly for an input that is no spreadsheet or
\* has no STATUS column.
C6_FailsOnlyWithoutStatus ==
    pc # "load" =>
        (df = None <=>
            (~uploaded_file.readable \/ "STATUS" \notin uploaded_file.table.columns))

\* A table returned for a spreadsheet with only two of the columns and a row
\* of unparseable cells.
C6_Witness ==
    /\ pc # "load"
    /\ df # None
    /\ uploaded_file.table.columns = {"STATUS", "ORD CREATE"}
    /\ Len(uploaded_file.table.rows) = 2
    /\ uploaded_file.table.rows[1]["ORD CREATE"] = Str(Unparseable)
    /\ Len(df.rows) > 0

LoadFails(file) == ~file.readable \/ "STATUS" \notin file.table.columns

\* C7: when load_and_process_data fails, an error is shown, no table is
\* returned, and the run computes no OTP and renders nothing.
C7_FailureRendersNothing ==
    /\ pc \notin {"idle", "load"} /\ LoadFails(uploaded_file) =>
          /\ error_shown
          /\ df = None
          /\ otp = NotComputed
          /\ rendered = NothingRendered
          /\ pc = "done"
    /\ error_shown => df = None /\ rendered = NothingRendered

\* A run that ended on a failure after the file had been read.
C7_Witness ==
    /\ pc = "done"
    /\ error_shown
    /\ uploaded_file.readable
    /\ Len(uploaded_file.table.rows) > 0
    /\ df = None

\* TOTAL CHARGES * 0.92, the product written out.
TimesRate(n) == Float(Rat(n * 92, 100))

\* C8: TOTAL_CHARGES_EUR is TOTAL CHARGES times 0.92 where that is a number,
\* null where it is unparseable, and 0 in every row when the input has no
\* TOTAL CHARGES column.
C8_ChargesInEur ==
    pc # "load" /\ df # None =>
        /\ "TOTAL_CHARGES_EUR" \in df.columns
        /\ \A j \in DOMAIN df.rows :
              LET eur == df.rows[j]["TOTAL_CHARGES_EUR"]
              IN  IF "TOTAL CHARGES" \notin uploaded_file.table.columns
                  THEN eur = IntC(0)
                  ELSE LET usd == df.rows[j]["TOTAL CHARGES"]
                       IN  /\ IsInt(usd) => eur = TimesRate(usd.int)
                           /\ usd = Str(Twelve) => eur = TimesRate(12)
                           /\ usd \in {Str(Unparseable), Null} => eur = Null

\* A table with a converted charge of 92 for 100 and a null one.
C8_Witness ==
    /\ pc # "load"
    /\ df # None
    /\ Len(df.rows) = 2
    /\ "TOTAL CHARGES" \in df.columns
    /\ df.rows[1]["TOTAL CHARGES"] = IntC(100)
    /\ df.rows[1]["TOTAL_CHARGES_EUR"] = Float(Rat(92, 1))
    /\ df.rows[2]["TOTAL CHARGES"] = Str(Unparseable)
    /\ df.rows[2]["TOTAL_CHARGES_EUR"] = Null

IsMonthKeyOf(text, t) ==
    /\ Len(text) = 7
    /\ SubSeq(text, 1, 5) = <<"2", "0", "2", "4", "-">>
    /\ DecimalValue(SubSeq(text, 6, 7)) \in 1..12
    /\ DaysBefore(DecimalValue(SubSeq(text, 6, 7))) * SecondsPerDay <= t
    /\ t < DaysBefore(DecimalValue(SubSeq(text, 6, 7)) + 1) * SecondsPerDay

\* C9: with an ORD CREATE column, Month is the 'YYYY-MM' key of the row's
\* timestamp, and null when the timestamp is null; rows without a timestamp
\* form no bucket of the monthly trend.
C9_NullMonthForNullTimestamp ==
    df # None /\ "Month" \in df.columns =>
        /\ \A j \in DOMAIN df.rows :
              IF IsNull(df.rows[j]["ORD CREATE"])
              THEN IsNull(df.rows[j]["Month"])
              ELSE /\ IsStr(df.rows[j]["Month"])
                   /\ IsMonthKeyOf(df.rows[j]["Month"].str, df.rows[j]["ORD CREATE"].ts)
        /\ "monthly" \in DOMAIN rendered =>
              \A m \in DOMAIN rendered["monthly"].Orders :
                  \E j \in DOMAIN df.rows :
                      /\ ~IsNull(df.rows[j]["ORD CREATE"])
                      /\ IsMonthKeyOf(m.str, df.rows[j]["ORD CREATE"].ts)

\* The same text up to letter case and surrounding blanks.
SameLocation(a, b) == StripText(UpperText(a)) = StripText(UpperText(b))

RowsAt(t, col, a) ==
    {i \in DOMAIN t.rows : IsStr(t.rows[i][col]) /\ SameLocation(t.rows[i][col].str, a)}

CoversLocations(t, col, counts) ==
    \A i \in DOMAIN t.rows :
        IsStr(t.rows[i][col]) =>
            \E k \in DOMAIN counts :
                /\ SameLocation(k.str, t.rows[i][col].str)
                /\ counts[k] = Cardinality(RowsAt(t, col, t.rows[i][col].str))

\* C10: in the departure and delivery aggregations, rows whose codes differ
\* only in letter case or surrounding blanks fall into one bucket, and the
\* bucket's shipment count covers all of them.
C10_OneBucketPerLocation ==
    /\ "dep_counts" \in DOMAIN rendered => CoversLocations(df, "DEP", rendered["dep_counts"])
    /\ "arr_counts" \in DOMAIN rendered => CoversLocations(df, "ARR", rendered["arr_counts"])

\* C12: over any sequence of uploads and reruns, pd.read_excel runs on a file
\* only the first time load_and_process_data is called with it; every call,
\* the first or a later one, after any other files, returns what the
\* function computes from the file in the uploader alone.
C12_ParsedOncePerFile ==
    /\ \A i, j \in DOMAIN parsed : parsed[i] = parsed[j] => i = j
    /\ pc \notin {"idle", "load"} =>
          /\ uploaded_file \in Range(parsed)
          /\ (df = None) <=> (load_and_process_data(uploaded_file) = None)
    /\ pc = "kpis" => df = load_and_process_data(uploaded_file)

\* The first file is in the uploader again after another one was loaded,
\* and its table has been returned: two files parsed, each once.
C12_Witness ==
    /\ pc = "kpis"
    /\ Len(parsed) = 2
    /\ uploaded_file = parsed[1]
    /\ parsed[2] # parsed[1]
    /\ parsed[2].readable
    /\ df = load_and_process_data(parsed[1])
    /\ df # load_and_process_data(parsed[2])

\* uppercase(trim(DEP)) + ' → ' + uppercase(trim(ARR))
NormalizedRoute(r) ==
    Str(StripText(UpperText(r["DEP"].str)) \o <<" ", "→", " ">> \o
        StripText(UpperText(r["ARR"].str)))

HasLocations(r) == IsStr(r["DEP"]) /\ IsStr(r["ARR"])

\* C13: the Route label of a row is its DEP and ARR codes, upper-cased and
\* trimmed, joined by ' → '; rows whose codes differ only in letter case or
\* surrounding blanks have the same label and are one group of the route
\* grouping.
C13_RouteNormalized ==
    df # None /\ "Route" \in df.columns =>
        /\ \A j \in DOMAIN df.rows :
              HasLocations(df.rows[j]) => df.rows[j]["Route"] = NormalizedRoute(df.rows[j])
        /\ "route_stats" \in DOMAIN rendered =>
              \A i, j \in DOMAIN df.rows :
                  /\ HasLocations(df.rows[i]) /\ HasLocations(df.rows[j])
                  /\ SameLocation(df.rows[i]["DEP"].str, df.rows[j]["DEP"].str)
                  /\ SameLocation(df.rows[i]["ARR"].str, df.rows[j]["ARR"].str)
                  => \E k \in DOMAIN rendered["route_stats"] :
                         k = df.rows[i]["Route"] /\ k = df.rows[j]["Route"]

DerivedColumns == {"TOTAL_CHARGES_EUR", "Route", "Month", "Transit_Hours"}

\* What a timestamp column holds for a value read: the timestamp itself, the
\* timestamp a date text stands for, null for anything else.
ParsedOrRead(now, read) ==
    /\ IsTs(read) => now = read
    /\ read = Str(FebruaryFirst) => now = Ts(31 * SecondsPerDay)
    /\ read \in {Null, Str(Unparseable)} => IsNull(now)

\* C14 as stated: load_and_process_data only adds the derived columns; in
\* every retained row every source column, the timestamp columns included,
\* holds the value read from the input.
C14_SourceColumnsAsRead ==
    pc # "load" /\ df # None =>
        LET raw == uploaded_file.table
            kept == BilledIndices(raw.rows, 1)
        IN  /\ raw.columns \subseteq df.columns
            /\ df.columns \ raw.columns \subseteq DerivedColumns
            /\ Len(df.rows) = Len(kept)
            /\ \A j \in DOMAIN kept : \A c \in raw.columns :
                  df.rows[j][c] = raw.rows[kept[j]][c]

\* C14, amended: load_and_process_data only adds the derived columns; in
\* every retained row every source column other than the five timestamp
\* columns holds the value read from the input, and a timestamp column
\* holds the timestamp parsed from the value read, null when the value is
\* empty or unparseable.
C14_OnlyTimestampsParsed ==
    pc # "load" /\ df # None =>
        LET raw == uploaded_file.table
            kept == BilledIndices(raw.rows, 1)
        IN  /\ raw.columns \subseteq df.columns
            /\ df.columns \ raw.columns \subseteq DerivedColumns
            /\ Len(df.rows) = Len(kept)
            /\ \A j \in DOMAIN kept : \A c \in raw.columns :
                  IF c \in {"QDT", "POD DATE/TIME", "ORD CREATE",
                            "Depart Date / Time", "Arrive Date / Time"}
                  THEN ParsedOrRead(df.rows[j][c], raw.rows[kept[j]][c])
                  ELSE df.rows[j][c] = raw.rows[kept[j]][c]

\* A table returned with an unparseable charge kept as read, an unparseable
\* order date turned into null and a date text turned into its timestamp.
C14_Witness ==
    /\ pc # "load"
    /\ df # None
    /\ Len(df.rows) = 2
    /\ Len(uploaded_file.table.rows) = 2
    /\ uploaded_file.table.columns = AllColumns
    /\ uploaded_file.table.rows[1]["ORD CREATE"] = Str(Unparseable)
    /\ uploaded_file.table.rows[2]["ORD CREATE"] = Str(FebruaryFirst)
    /\ IsNull(df.rows[1]["ORD CREATE"])
    /\ df.rows[2]["ORD CREATE"] = Ts(31 * SecondsPerDay)
    /\ df.rows[1]["TOTAL CHARGES"] = Str(Unparseable)
    /\ df.rows[1]["DEP"] = Str(JFK)
    /\ DerivedColumns \subseteq df.columns

\* Arrive Date / Time minus Depart Date / Time, in hours.
InHours(r) ==
    Float(Rat(r["Arrive Date / Time"].ts - r["Depart Date / Time"].ts, 3600))

\* C15: Transit_Hours is the arrival minus the departure in hours in every
\* row, zero, negative and 200 or more included (null without one of the two
\* timestamps); the transit-time analysis uses exactly the rows whose
\* Transit_Hours is not null and strictly between 0 and 200, in their order.
C15_TransitHoursKeptAndFiltered ==
    df # None /\ "Transit_Hours" \in df.columns =>
        /\ \A j \in DOMAIN df.rows :
              df.rows[j]["Transit_Hours"] =
                  IF IsNull(df.rows[j]["Arrive Date / Time"]) \/
                     IsNull(df.rows[j]["Depart Date / Time"])
                  THEN Null ELSE InHours(df.rows[j])
        /\ "transit_data" \in DOMAIN rendered =>
              rendered["transit_data"].rows =
                  SelectRows(df.rows,
                             [j \in DOMAIN df.rows |->
                                 LET h == df.rows[j]["Transit_Hours"]
                                 IN  /\ ~IsNull(h)
                                     /\ h.float.n > 0
                                     /\ h.float.n < 200 * h.float.d])

\* A table with a transit of 0 hours, kept, and one of 200 hours, kept, and
\* an analysis without either.
C15_Witness ==
    /\ pc = "done"
    /\ df # None
    /\ "transit_data" \in DOMAIN rendered
    /\ Len(df.rows) = 2
    /\ df.rows[1]["Transit_Hours"] = Float(Rat(0, 1))
    /\ df.rows[2]["Transit_Hours"] = Float(Rat(200, 1))
    /\ rendered["transit_data"].rows = <<>>

WorkingColumns == {"ON_TIME_GROSS", "LATE", "CONTROLLABLE", "ON_TIME_NET"}

\* C16: the calls of calculate_otp, the one on the full table and the ones
\* per month, leave the normalized table as it was, rows, columns and values;
\* no working column of calculate_otp is ever in the table, nor in the
\* export.
C16_OtpLeavesTableUnchanged ==
    [][/\ pc \in {"kpis", "monthly"} => df' = df
       /\ df' # None => df'.columns \cap WorkingColumns = {}
       /\ "csv" \in DOMAIN rendered' =>
             /\ rendered'["csv"] = df'
             /\ rendered'["csv"].columns \cap WorkingColumns = {}]_vars

\* A run that computed the OTP of the full table, with a row left out as
\* invalid, and of two months, and exported both rows.
C16_Witness ==
    /\ pc = "done"
    /\ "csv" \in DOMAIN rendered
    /\ "monthly" \in DOMAIN rendered
    /\ "QDT" \in df.columns /\ "POD DATE/TIME" \in df.columns
    /\ Cardinality(DOMAIN rendered["monthly"].Net_OTP) = 2
    /\ otp # NoOtp
    /\ Len(df.rows) = 2
    /\ Len(DropNa(df, {"QDT", "POD DATE/TIME"}).rows) = 1
    /\ rendered["csv"] = df

====
